---- MODULE Spec2Model ----
(***************************************************************************)
(* A model of sie4parse.py: the SIE4 line parser (FileData), the ledger    *)
(* it builds, and the two serializers writeCsv and writeSie, driven as the *)
(* __main__ block drives them.                                             *)
(*                                                                         *)
(* Text is modelled at character level: a Python str is a sequence of      *)
(* one-character strings, so that quoting, number parsing and number       *)
(* formatting are computed and not assumed.                                *)
(***************************************************************************)
EXTENDS Integers, Sequences, FiniteSets, TLC

(***************************************************************************)
(* Characters and strings                                                  *)
(***************************************************************************)
NL == "\n"
SP == " "
DQ == "\""
SQ == "'"
BS == "\\"

\* shlex.whitespace (" \t\r\n")
Whitespace == {SP, "\t", "\r", NL}

Digits == {"0", "1", "2", "3", "4", "5", "6", "7", "8", "9"}

DigitVal(c) ==
    CASE c = "0" -> 0 [] c = "1" -> 1 [] c = "2" -> 2 [] c = "3" -> 3
      [] c = "4" -> 4 [] c = "5" -> 5 [] c = "6" -> 6 [] c = "7" -> 7
      [] c = "8" -> 8 [] c = "9" -> 9

DigitChar(d) ==
    CASE d = 0 -> "0" [] d = 1 -> "1" [] d = 2 -> "2" [] d = 3 -> "3"
      [] d = 4 -> "4" [] d = 5 -> "5" [] d = 6 -> "6" [] d = 7 -> "7"
      [] d = 8 -> "8" [] d = 9 -> "9"

(***************************************************************************)
(* shlex.split(line): POSIX mode, whitespace_split, no commenters.         *)
(* The lexer state is "ws" (between tokens), "word" (inside a token),      *)
(* DQ or SQ (inside that quote) or "esc" (after a backslash, to return to  *)
(* escapedstate).  The result is [ok, toks]; ok = FALSE is the ValueError  *)
(* of an unterminated quote or a trailing backslash.                       *)
(***************************************************************************)
RECURSIVE Lex(_, _, _, _, _, _, _)
Lex(line, i, state, escapedstate, token, quoted, toks) ==
    LET emit == IF token # <<>> \/ quoted THEN Append(toks, token) ELSE toks
    IN
    IF i > Len(line)
    THEN CASE state = "ws"   -> [ok |-> TRUE, toks |-> toks]
           [] state = "word" -> [ok |-> TRUE, toks |-> emit]
           [] OTHER          -> [ok |-> FALSE, toks |-> <<>>]
    ELSE LET c == line[i] IN
         CASE state = "ws" ->
                IF c \in Whitespace
                THEN Lex(line, i + 1, "ws", escapedstate, <<>>, FALSE, toks)
                ELSE IF c = BS
                THEN Lex(line, i + 1, "esc", "word", token, quoted, toks)
                ELSE IF c \in {DQ, SQ}
                THEN Lex(line, i + 1, c, escapedstate, token, quoted, toks)
                ELSE Lex(line, i + 1, "word", escapedstate, <<c>>, quoted, toks)
           [] state \in {DQ, SQ} ->
                IF c = state
                THEN Lex(line, i + 1, "word", escapedstate, token, TRUE, toks)
                ELSE IF c = BS /\ state = DQ
                THEN Lex(line, i + 1, "esc", state, token, TRUE, toks)
                ELSE Lex(line, i + 1, state, escapedstate, Append(token, c), TRUE, toks)
           [] state = "esc" ->
                LET kept == IF escapedstate = DQ /\ c # BS /\ c # DQ
                            THEN Append(token, BS) ELSE token
                IN Lex(line, i + 1, escapedstate, escapedstate,
                       Append(kept, c), quoted, toks)
           [] state = "word" ->
                IF c \in Whitespace
                THEN Lex(line, i + 1, "ws", escapedstate, <<>>, FALSE, emit)
                ELSE IF c \in {DQ, SQ}
                THEN Lex(line, i + 1, c, escapedstate, token, quoted, toks)
                ELSE IF c = BS
                THEN Lex(line, i + 1, "esc", "word", token, quoted, toks)
                ELSE Lex(line, i + 1, "word", escapedstate, Append(token, c), quoted, toks)

shlexSplit(line) == Lex(line, 1, "ws", "ws", <<>>, FALSE, <<>>)

(***************************************************************************)
(* str helpers: " ".join, str.startswith, str comparison by code point     *)
(***************************************************************************)
RECURSIVE Concat(_)
Concat(ss) == IF ss = <<>> THEN <<>> ELSE Head(ss) \o Concat(Tail(ss))

RECURSIVE Join(_, _)
Join(sep, ss) ==
    IF ss = <<>> THEN <<>>
    ELSE IF Len(ss) = 1 THEN ss[1]
    ELSE ss[1] \o sep \o Join(sep, Tail(ss))

startswith(s, c) == Len(s) > 0 /\ s[1] = c

\* ord() of the characters that occur in the dates of the bounded inputs
Ord(c) == IF c \in Digits THEN 48 + DigitVal(c)
          ELSE CASE c = SP -> 32 [] c = "-" -> 45 [] c = "." -> 46
                 [] c = "x" -> 120 [] c = "y" -> 121

RECURSIVE StrLt(_, _)
StrLt(a, b) ==
    IF b = <<>> THEN FALSE
    ELSE IF a = <<>> THEN TRUE
    ELSE IF a[1] # b[1] THEN Ord(a[1]) < Ord(b[1])
    ELSE StrLt(Tail(a), Tail(b))

RECURSIVE StripWs(_)
StripWs(s) ==
    IF s = <<>> THEN s
    ELSE IF s[1] \in Whitespace THEN StripWs(Tail(s))
    ELSE IF s[Len(s)] \in Whitespace THEN StripWs(SubSeq(s, 1, Len(s) - 1))
    ELSE s

AllDigits(s) == \A i \in 1..Len(s) : s[i] \in Digits

RECURSIVE DigitsVal(_)
DigitsVal(s) ==
    IF s = <<>> THEN 0
    ELSE 10 * DigitsVal(SubSeq(s, 1, Len(s) - 1)) + DigitVal(s[Len(s)])

RECURSIVE NatDigits(_)
NatDigits(n) ==
    IF n < 10 THEN <<DigitChar(n)>>
    ELSE Append(NatDigits(n \div 10), DigitChar(n % 10))

(***************************************************************************)
(* int(s) and "%d" % n.  int() strips surrounding whitespace and takes an  *)
(* optional sign and decimal digits; anything else is a ValueError.        *)
(***************************************************************************)
ParseInt(s) ==
    LET t    == StripWs(s)
        sgn  == t # <<>> /\ t[1] \in {"-", "+"}
        body == IF sgn THEN Tail(t) ELSE t
    IN IF body # <<>> /\ AllDigits(body)
       THEN [ok  |-> TRUE,
             val |-> IF sgn /\ t[1] = "-" THEN 0 - DigitsVal(body) ELSE DigitsVal(body)]
       ELSE [ok |-> FALSE, val |-> 0]

FormatInt(n) == IF n < 0 THEN <<"-">> \o NatDigits(0 - n) ELSE NatDigits(n)

(***************************************************************************)
(* float(s) and "%s" % f.  A float is kept as the decimal it denotes,      *)
(* [m, k] standing for m * 10^-k with no trailing zero in the fraction;    *)
(* repr() of a float parsed from a short decimal is that decimal again,    *)
(* with at least one fractional digit.  The bounded inputs hold no         *)
(* exponent, inf or nan spelling and no negative zero.                     *)
(***************************************************************************)
RECURSIVE Normalize(_, _)
Normalize(m, k) ==
    IF k > 0 /\ m % 10 = 0 THEN Normalize(m \div 10, k - 1) ELSE [m |-> m, k |-> k]

IndexOfDot(s) ==
    IF \E i \in 1..Len(s) : s[i] = "."
    THEN CHOOSE i \in 1..Len(s) : s[i] = "." /\ \A j \in 1..(i - 1) : s[j] # "."
    ELSE 0

ParseFloat(s) ==
    LET t    == StripWs(s)
        sgn  == t # <<>> /\ t[1] \in {"-", "+"}
        body == IF sgn THEN Tail(t) ELSE t
        dot  == IndexOfDot(body)
        ip   == IF dot = 0 THEN body ELSE SubSeq(body, 1, dot - 1)
        fp   == IF dot = 0 THEN <<>> ELSE SubSeq(body, dot + 1, Len(body))
        mag  == Normalize(DigitsVal(ip \o fp), Len(fp))
    IN IF AllDigits(ip) /\ AllDigits(fp) /\ Len(ip) + Len(fp) > 0
       THEN [ok  |-> TRUE,
             val |-> IF sgn /\ t[1] = "-"
                     THEN [m |-> 0 - mag.m, k |-> mag.k] ELSE mag]
       ELSE [ok |-> FALSE, val |-> [m |-> 0, k |-> 0]]

RECURSIVE ZeroPad(_, _)
ZeroPad(s, n) == IF Len(s) >= n THEN s ELSE ZeroPad(<<"0">> \o s, n)

FormatFloat(f) ==
    LET mag == IF f.m < 0 THEN 0 - f.m ELSE f.m
        ds  == ZeroPad(NatDigits(mag), f.k + 1)
        ip  == SubSeq(ds, 1, Len(ds) - f.k)
        fp  == IF f.k = 0 THEN <<"0">> ELSE SubSeq(ds, Len(ds) - f.k + 1, Len(ds))
    IN (IF f.m < 0 THEN <<"-">> ELSE <<>>) \o ip \o <<".">> \o fp

(***************************************************************************)
(* A Python dict is a sequence of [k, v] items with distinct keys, in      *)
(* insertion order; assigning to a present key keeps its position.         *)
(***************************************************************************)
DictHas(d, key) == \E i \in 1..Len(d) : d[i].k = key

DictGet(d, key) == d[CHOOSE i \in 1..Len(d) : d[i].k = key].v

\* mutant of DictSet: dict.setdefault, the first value of a key is kept
DictSetKeepFirst(d, key, val) ==
    IF DictHas(d, key) THEN d ELSE Append(d, [k |-> key, v |-> val])

DictSet(d, key, val) ==
    IF DictHas(d, key)
    THEN [i \in 1..Len(d) |-> IF d[i].k = key THEN [k |-> key, v |-> val] ELSE d[i]]
    ELSE Append(d, [k |-> key, v |-> val])

DictKeys(d) == [i \in 1..Len(d) |-> d[i].k]

KeySet(d) == {d[i].k : i \in 1..Len(d)}

(***************************************************************************)
(* The ledger (FileData) and its entries (Entry)                           *)
(***************************************************************************)
KONTO == <<"K", "O", "N", "T", "O">>
VER   == <<"V", "E", "R">>
TRANS == <<"T", "R", "A", "N", "S">>

\* FileData.__init__
EmptyData == [accountNames |-> <<>>, headers |-> <<>>, entries |-> <<>>]

\* The outcome of a call: the exception it raised ("none" if it returned)
\* and the ledger it left behind.
Outcome(err, data) == [err |-> err, data |-> data]

\* mutant of addTransaction: no assert, a second amount replaces the first
addTransactionOverwrite(data, i, account, amount) ==
    Outcome("none", [data EXCEPT !.entries[i].entries = DictSet(@, account, amount)])

\* Entry.addTransaction on the entry at index i of data.entries
addTransaction(data, i, account, amount) ==
    IF DictHas(data.entries[i].entries, account)
    THEN Outcome("AssertionError", data)
    ELSE Outcome("none",
                 [data EXCEPT !.entries[i].entries = DictSet(@, account, amount)])

\* FileData.parseVer
parseVer(data, fields) ==
    IF Len(fields) < 2 THEN Outcome("IndexError", data)
    ELSE IF ~ParseInt(fields[2]).ok THEN Outcome("ValueError", data)
    ELSE IF Len(fields) < 4 THEN Outcome("IndexError", data)
    ELSE Outcome("none",
                 [data EXCEPT !.entries =
                     Append(@, [series  |-> fields[1],
                                number  |-> ParseInt(fields[2]).val,
                                date    |-> fields[3],
                                text    |-> fields[4],
                                entries |-> <<>>])])

\* mutant of parseTrans: the transaction goes to the first Entry, not the last
parseTransFirst(data, fields) ==
    IF data.entries = <<>> THEN Outcome("IndexError", data)
    ELSE IF Len(fields) < 1 THEN Outcome("IndexError", data)
    ELSE IF ~ParseInt(fields[1]).ok THEN Outcome("ValueError", data)
    ELSE IF Len(fields) < 3 THEN Outcome("IndexError", data)
    ELSE IF ~ParseFloat(fields[3]).ok THEN Outcome("ValueError", data)
    ELSE addTransaction(data, 1, ParseInt(fields[1]).val, ParseFloat(fields[3]).val)

\* mutant of parseTrans: a transaction with no Entry to go to is dropped
parseTransDropped(data, fields) ==
    IF data.entries = <<>> THEN Outcome("none", data)
    ELSE IF Len(fields) < 1 THEN Outcome("IndexError", data)
    ELSE IF ~ParseInt(fields[1]).ok THEN Outcome("ValueError", data)
    ELSE IF Len(fields) < 3 THEN Outcome("IndexError", data)
    ELSE IF ~ParseFloat(fields[3]).ok THEN Outcome("ValueError", data)
    ELSE addTransaction(data, Len(data.entries),
                        ParseInt(fields[1]).val, ParseFloat(fields[3]).val)

\* FileData.parseTrans
parseTrans(data, fields) ==
    IF data.entries = <<>> THEN Outcome("IndexError", data)
    ELSE IF Len(fields) < 1 THEN Outcome("IndexError", data)
    ELSE IF ~ParseInt(fields[1]).ok THEN Outcome("ValueError", data)
    ELSE IF Len(fields) < 3 THEN Outcome("IndexError", data)
    ELSE IF ~ParseFloat(fields[3]).ok THEN Outcome("ValueError", data)
    ELSE addTransaction(data, Len(data.entries),
                        ParseInt(fields[1]).val, ParseFloat(fields[3]).val)

\* FileData.parseLabel
parseLabel(data, label, fields) ==
    IF label = KONTO
    THEN IF Len(fields) < 2 THEN Outcome("IndexError", data)
         ELSE IF ~ParseInt(fields[1]).ok THEN Outcome("ValueError", data)
         ELSE Outcome("none",
                      [data EXCEPT !.accountNames =
                          DictSet(@, ParseInt(fields[1]).val, fields[2])])
    ELSE IF label = VER THEN parseVer(data, fields)
    ELSE IF label = TRANS THEN parseTrans(data, fields)
    ELSE Outcome("none", [data EXCEPT !.headers = DictSet(@, label, fields)])

\* FileData.pushBracket, FileData.popBracket
pushBracket(data) == Outcome("none", data)
popBracket(data) == Outcome("none", data)

\* mutant of parseLine: a first token that is no label and no brace is an
\* error
parseLineStrict(data, line) ==
    LET lexed == shlexSplit(line)
        split == lexed.toks
    IN IF ~lexed.ok THEN Outcome("ValueError", data)
       ELSE IF Len(split) = 0 THEN Outcome("none", data)
       ELSE IF startswith(split[1], "#")
       THEN parseLabel(data, Tail(split[1]), Tail(split))
       ELSE IF split[1] = <<"{">>
       THEN IF Len(split) # 1 THEN Outcome("AssertionError", data)
            ELSE pushBracket(data)
       ELSE IF split[1] = <<"}">>
       THEN IF Len(split) # 1 THEN Outcome("AssertionError", data)
            ELSE popBracket(data)
       ELSE Outcome("ValueError", data)

\* FileData.parseLine
parseLine(data, line) ==
    LET lexed == shlexSplit(line)
        split == lexed.toks
    IN IF ~lexed.ok THEN Outcome("ValueError", data)
       ELSE IF Len(split) = 0 THEN Outcome("none", data)
       ELSE IF startswith(split[1], "#")
       THEN parseLabel(data, Tail(split[1]), Tail(split))
       ELSE IF split[1] = <<"{">>
       THEN IF Len(split) # 1 THEN Outcome("AssertionError", data)
            ELSE pushBracket(data)
       ELSE IF split[1] = <<"}">>
       THEN IF Len(split) # 1 THEN Outcome("AssertionError", data)
            ELSE popBracket(data)
       ELSE Outcome("none", data)

(***************************************************************************)
(* Entry ordering: Entry.__lt__ and sorted(data.entries)                   *)
(***************************************************************************)
\* mutant of EntryLt: in by-date mode the number does not break a tie
EntryLtDateOnly(a, b, byDate) ==
    IF byDate THEN StrLt(a.date, b.date) ELSE a.number < b.number

\* Entry.__lt__ under the global sortByDate
EntryLt(a, b, byDate) ==
    IF byDate /\ a.date # b.date
    THEN StrLt(a.date, b.date)
    ELSE a.number < b.number

\* list.sort is stable: an element goes after every element it is not
\* less than.
RECURSIVE InsertSorted(_, _, _)
InsertSorted(e, s, byDate) ==
    IF s = <<>> THEN <<e>>
    ELSE IF EntryLt(e, s[1], byDate) THEN <<e>> \o s
    ELSE <<s[1]>> \o InsertSorted(e, Tail(s), byDate)

RECURSIVE sortedFrom(_, _, _, _)
sortedFrom(es, i, acc, byDate) ==
    IF i > Len(es) THEN acc
    ELSE sortedFrom(es, i + 1, InsertSorted(es[i], acc, byDate), byDate)

sorted(es, byDate) == sortedFrom(es, 1, <<>>, byDate)

RECURSIVE InsertInt(_, _)
InsertInt(n, s) ==
    IF s = <<>> THEN <<n>>
    ELSE IF n < s[1] THEN <<n>> \o s
    ELSE <<s[1]>> \o InsertInt(n, Tail(s))

\* mutant of sortedInts: the keys in the dict's insertion order
insertionOrder(ns) == ns

RECURSIVE sortedInts(_)
sortedInts(ns) ==
    IF ns = <<>> THEN <<>>
    ELSE InsertInt(ns[Len(ns)], sortedInts(SubSeq(ns, 1, Len(ns) - 1)))

(***************************************************************************)
(* writeCsv.  A row is the list handed to csv.writer.writerow, each cell   *)
(* as the text the writer makes of it (str() of an int or a float, the     *)
(* str itself, "" for an empty cell).  The result is the exception raised  *)
(* and the rows written before it.                                         *)
(***************************************************************************)
Slice(s, a, b) == SubSeq(s, a + 1, IF b < Len(s) THEN b ELSE Len(s))

parseDate(s) ==
    Slice(s, 0, 4) \o <<"-">> \o Slice(s, 4, 6) \o <<"-">> \o Slice(s, 6, 8)

\* list.index: 0 when absent (the ValueError), else the 1-based position
IndexOf(s, x) ==
    IF \E i \in 1..Len(s) : s[i] = x
    THEN CHOOSE i \in 1..Len(s) : s[i] = x /\ \A j \in 1..(i - 1) : s[j] # x
    ELSE 0

\* the row of one entry; lines 26-30
RECURSIVE FillRow(_, _, _, _)
FillRow(row, items, i, accountNumbers) ==
    IF i > Len(items) THEN [err |-> "none", row |-> row]
    ELSE LET accountCol == IndexOf(accountNumbers, items[i].k)
         IN IF accountCol = 0 THEN [err |-> "ValueError", row |-> row]
            ELSE FillRow([row EXCEPT ![accountCol + 3] = FormatFloat(items[i].v)],
                         items, i + 1, accountNumbers)

\* mutant of EntryRow: a transaction on an account with no column is skipped
EntryRowSkipUnknown(entry, accountNumbers) ==
    FillRow(<<FormatInt(entry.number), parseDate(entry.date), entry.text>>
              \o [i \in 1..Len(accountNumbers) |-> <<>>],
            SelectSeq(entry.entries, LAMBDA it : IndexOf(accountNumbers, it.k) # 0),
            1, accountNumbers)

EntryRow(entry, accountNumbers) ==
    FillRow(<<FormatInt(entry.number), parseDate(entry.date), entry.text>>
              \o [i \in 1..Len(accountNumbers) |-> <<>>],
            entry.entries, 1, accountNumbers)

RECURSIVE CsvRows(_, _, _, _)
CsvRows(es, i, accountNumbers, rows) ==
    IF i > Len(es) THEN [err |-> "none", rows |-> rows]
    ELSE LET r == EntryRow(es[i], accountNumbers)
         IN IF r.err # "none" THEN [err |-> r.err, rows |-> rows]
            ELSE CsvRows(es, i + 1, accountNumbers, Append(rows, r.row))

writeCsv(data, byDate) ==
    LET accountNumbers == sortedInts(DictKeys(data.accountNames))
        row1 == << <<"#">>, <<"d", "a", "t", "e">>, <<"t", "e", "x", "t">> >>
                  \o [i \in 1..Len(accountNumbers) |-> FormatInt(accountNumbers[i])]
        row2 == << <<>>, <<>>, <<>> >>
                  \o [i \in 1..Len(accountNumbers) |->
                         DictGet(data.accountNames, accountNumbers[i])]
    IN CsvRows(sorted(data.entries, byDate), 1, accountNumbers, <<row1, row2>>)

(***************************************************************************)
(* writeSie: the text written to the output file                           *)
(***************************************************************************)
Quoted(f) == <<DQ>> \o f \o <<DQ>>

SieHeader(item) ==
    <<"#">> \o item.k \o <<SP>>
      \o Join(<<SP>>, [i \in 1..Len(item.v) |-> Quoted(item.v[i])]) \o <<NL>>

SieKonto(item) ==
    <<"#">> \o KONTO \o <<SP>> \o FormatInt(item.k) \o <<SP>> \o Quoted(item.v) \o <<NL>>

SieTrans(item) ==
    <<"#">> \o TRANS \o <<SP>> \o FormatInt(item.k) \o <<SP, "{", "}", SP>>
      \o FormatFloat(item.v) \o <<NL>>

SieEntry(entry) ==
    <<"#">> \o VER \o <<SP>> \o Quoted(entry.series) \o <<SP>> \o FormatInt(entry.number)
      \o <<SP>> \o entry.date \o <<SP>> \o Quoted(entry.text) \o <<NL>>
      \o <<"{", NL>>
      \o Concat([i \in 1..Len(entry.entries) |-> SieTrans(entry.entries[i])])
      \o <<"}", NL>>
      \o <<NL>>

writeSie(data, byDate) ==
    LET es == sorted(data.entries, byDate)
    IN Concat([i \in 1..Len(data.headers) |-> SieHeader(data.headers[i])])
         \o Concat([i \in 1..Len(data.accountNames) |-> SieKonto(data.accountNames[i])])
         \o Concat([i \in 1..Len(es) |-> SieEntry(es[i])])

(***************************************************************************)
(* FileData.parseFile over a text: the file object yields the lines with   *)
(* their terminators, and parsing stops at the first exception.            *)
(***************************************************************************)
LineEnds(text) ==
    {i \in 1..Len(text) : text[i] = NL \/ i = Len(text)}

SplitLines(text) ==
    LET ends == LineEnds(text)
    IN [n \in 1..Cardinality(ends) |->
           LET e == CHOOSE e \in ends : Cardinality({j \in ends : j < e}) = n - 1
               before == {j \in ends : j < e}
               s == IF before = {} THEN 1
                    ELSE 1 + CHOOSE j \in before : \A h \in before : h <= j
           IN SubSeq(text, s, e)]

RECURSIVE parseLines(_, _, _)
parseLines(data, lines, i) ==
    IF i > Len(lines) THEN Outcome("none", data)
    ELSE LET r == parseLine(data, lines[i])
         IN IF r.err # "none" THEN r ELSE parseLines(r.data, lines, i + 1)

parseFile(text) == parseLines(EmptyData, SplitLines(text), 1)

(***************************************************************************)
(* The bounded input: the lines an input file is made of.  W spells a      *)
(* line out of its words, one space between them, newline-terminated.      *)
(***************************************************************************)
W(words) == Join(<<SP>>, words) \o <<NL>>

HashKONTO == <<"#">> \o KONTO
HashVER   == <<"#">> \o VER
HashTRANS == <<"#">> \o TRANS
HashFLAGGA == <<"#", "F", "L", "A", "G", "G", "A">>
Date0101 == <<"2", "0", "2", "3", "0", "1", "0", "1">>
Date0202 == <<"2", "0", "2", "3", "0", "2", "0", "2">>

BlankLine   == <<NL>>
OpenLine    == W(<< <<"{">> >>)
CloseLine   == W(<< <<"}">> >>)
OpenExtra   == W(<< <<"{">>, <<"x">> >>)
IgnoredLine == W(<< <<"x">>, HashKONTO, <<"1">>, <<"y">> >>)

\* #KONTO 2 "x y"      #KONTO 1 x\"y      #KONTO 02 y
Konto2   == W(<< HashKONTO, <<"2">>, <<DQ, "x", SP, "y", DQ>> >>)
Konto1   == W(<< HashKONTO, <<"1">>, <<"x", BS, DQ, "y">> >>)
Konto2b  == W(<< HashKONTO, <<"0", "2">>, <<"y">> >>)
KontoBad == W(<< HashKONTO, <<"x">>, <<"y">> >>)
\* #KONTO 1 "x   (the quote is never closed)
KontoOpen == W(<< HashKONTO, <<"1">>, <<DQ, "x">> >>)

\* #VER A 2 20230101 x   #VER A 1 20230202 "x y"   #VER B 2 20230202 "" x
Ver2  == W(<< HashVER, <<"A">>, <<"2">>, Date0101, <<"x">> >>)
Ver1  == W(<< HashVER, <<"A">>, <<"1">>, Date0202, <<DQ, "x", SP, "y", DQ>> >>)
Ver2b == W(<< HashVER, <<"B">>, <<"2">>, Date0202, <<DQ, DQ>>, <<"x">> >>)

\* #TRANS 1 {} 1.5     #TRANS 1 {} -2     #TRANS 2 {} 10
Trans1  == W(<< HashTRANS, <<"1">>, <<"{", "}">>, <<"1", ".", "5">> >>)
Trans1b == W(<< HashTRANS, <<"1">>, <<"{", "}">>, <<"-", "2">> >>)
Trans2  == W(<< HashTRANS, <<"2">>, <<"{", "}">>, <<"1", "0">> >>)

\* #FLAGGA 0           #FLAGGA 1 x
Flagga0 == W(<< HashFLAGGA, <<"0">> >>)
Flagga1 == W(<< HashFLAGGA, <<"1">>, <<"x">> >>)

Lines ==
    { BlankLine, OpenLine, CloseLine, OpenExtra, IgnoredLine,
      Konto2, Konto1, Konto2b, KontoBad, KontoOpen,
      Ver2, Ver1, Ver2b,
      Trans1, Trans1b, Trans2,
      Flagga0, Flagga1 }

\* the most lines an input file has in a run of the tool
MaxLines == 3

\* the most lines fed to a FileData when only the parser is exercised
MaxParseLines == 4

(***************************************************************************)
(* The run of the tool (the __main__ block)                                *)
(***************************************************************************)
VARIABLES
    args,        \* the parsed command line: [csv, si, sort_date]
    pc,          \* "parse", "csv", "si", "done", or "failed" after an exception
    err,         \* the exception that ended the run, "none" so far
    data,        \* the FileData
    consumed,    \* the lines of the input file read so far
    sortByDate,  \* the module global
    csvOpen,     \* whether the CSV output file has been opened
    csvOut,      \* the rows written to it
    sieOpen,     \* whether the SIE4 output file has been opened
    sieOut       \* the text written to it

vars == <<args, pc, err, data, consumed, sortByDate, csvOpen, csvOut, sieOpen, sieOut>>

Args == [csv : BOOLEAN, si : BOOLEAN, sort_date : BOOLEAN]

Init ==
    /\ args \in Args
    /\ pc = "parse"
    /\ err = "none"
    /\ data = EmptyData
    /\ consumed = <<>>
    /\ sortByDate = FALSE
    /\ csvOpen = FALSE
    /\ csvOut = <<>>
    /\ sieOpen = FALSE
    /\ sieOut = <<>>

outputs == <<csvOpen, csvOut, sieOpen, sieOut>>

\* mutant of ParseLineWithin: the exception of a line is swallowed and the
\* loop goes on
ParseLineSwallowing(line, most) ==
    /\ pc = "parse"
    /\ Len(consumed) < most
    /\ LET r == parseLine(data, line)
       IN /\ data' = r.data
          /\ err' = "none"
          /\ pc' = "parse"
    /\ consumed' = Append(consumed, line)
    /\ UNCHANGED <<args, sortByDate, outputs>>

\* parseFile: one iteration of the loop over the lines of the file, of a
\* file of at most `most` lines
ParseLineWithin(line, most) ==
    /\ pc = "parse"
    /\ Len(consumed) < most
    /\ LET r == parseLine(data, line)
       IN /\ data' = r.data
          /\ err' = r.err
          /\ pc' = IF r.err = "none" THEN "parse" ELSE "failed"
    /\ consumed' = Append(consumed, line)
    /\ UNCHANGED <<args, sortByDate, outputs>>

ParseLine(line) == ParseLineWithin(line, MaxLines)

\* parseFile returns at the end of the file; line 160 sets the global
EndOfFile ==
    /\ pc = "parse"
    /\ sortByDate' = args.sort_date
    /\ pc' = "csv"
    /\ UNCHANGED <<args, err, data, consumed, outputs>>

\* lines 162-164
MainCsv ==
    /\ pc = "csv"
    /\ IF args.csv
       THEN LET r == writeCsv(data, sortByDate)
            IN /\ csvOpen' = TRUE
               /\ csvOut' = r.rows
               /\ err' = r.err
               /\ pc' = IF r.err = "none" THEN "si" ELSE "failed"
       ELSE /\ pc' = "si"
            /\ UNCHANGED <<csvOpen, csvOut, err>>
    /\ UNCHANGED <<args, data, consumed, sortByDate, sieOpen, sieOut>>

\* lines 166-171
MainSie ==
    /\ pc = "si"
    /\ IF args.si
       THEN /\ sieOpen' = TRUE
            /\ sieOut' = writeSie(data, sortByDate)
       ELSE UNCHANGED <<sieOpen, sieOut>>
    /\ pc' = "done"
    /\ UNCHANGED <<args, err, data, consumed, sortByDate, csvOpen, csvOut>>

Next ==
    \/ \E line \in Lines : ParseLine(line)
    \/ EndOfFile
    \/ MainCsv
    \/ MainSie

Spec == Init /\ [][Next]_vars

(***************************************************************************)
(* The parser alone: a FileData fed line by line, as parseFile feeds it,   *)
(* in a run that asks for no output.                                       *)
(***************************************************************************)
InitParse ==
    /\ Init
    /\ args = [csv |-> FALSE, si |-> FALSE, sort_date |-> FALSE]

NextParse == \E line \in Lines : ParseLineWithin(line, MaxParseLines)

SpecParse == InitParse /\ [][NextParse]_vars

(***************************************************************************)
(* Reading the input back: what a line of the input file is                *)
(***************************************************************************)
\* the parse of the input ended in an exception
ParseFailed == pc = "failed" /\ ~csvOpen

\* the tokens of each line of the bounded input
Lexed == [line \in Lines |-> shlexSplit(line)]

Toks(line) == Lexed[line].toks

\* the line is a record with this label
IsRecord(line, label) ==
    /\ Lexed[line].ok
    /\ Toks(line) # <<>>
    /\ Toks(line)[1] = <<"#">> \o label

\* the line the step from this state to the next has read
Reads(line) == consumed' = Append(consumed, line)

LastLine == consumed[Len(consumed)]

TransAccount(line) == ParseInt(Toks(line)[2]).val
TransAmount(line) == ParseFloat(Toks(line)[4]).val

\* a TRANS line with all the fields parseTrans reads, well-formed
GoodTrans(line) ==
    /\ IsRecord(line, TRANS)
    /\ Len(Toks(line)) >= 4
    /\ ParseInt(Toks(line)[2]).ok
    /\ ParseFloat(Toks(line)[4]).ok

ItemSet(d) == {<<d[i].k, d[i].v>> : i \in 1..Len(d)}

\* the number of VER lines among the first j lines read: the index, in
\* data.entries, of the Entry of the nearest VER line before line j + 1
VersBefore(j) == Cardinality({i \in 1..j : IsRecord(consumed[i], VER)})

(***************************************************************************)
(* C1: after any lines that parse without error, the transaction map of    *)
(* the Entry made by the n-th VER line holds exactly the (account, amount) *)
(* pairs of the TRANS lines whose nearest preceding VER line is the n-th,  *)
(* whatever "{" and "}" lines lie between them.                            *)
(***************************************************************************)
C1_TransAttachesToLastVer ==
    ~ParseFailed =>
        /\ Len(data.entries) = VersBefore(Len(consumed))
        /\ \A n \in 1..Len(data.entries) :
              ItemSet(data.entries[n].entries) =
                  { <<TransAccount(consumed[j]), TransAmount(consumed[j])>> :
                      j \in {j \in 1..Len(consumed) :
                                /\ IsRecord(consumed[j], TRANS)
                                /\ VersBefore(j) = n} }

\* VER, "}", TRANS after the closing brace, and an earlier Entry besides
C1_Witness ==
    /\ ~ParseFailed
    /\ Len(consumed) = 4
    /\ IsRecord(consumed[1], VER)
    /\ IsRecord(consumed[2], VER)
    /\ consumed[3] = CloseLine
    /\ IsRecord(consumed[4], TRANS)
    /\ data.entries[1].entries = <<>>
    /\ data.entries[2].entries # <<>>

(***************************************************************************)
(* C4: a TRANS line read while the entry sequence is empty ends the parse  *)
(* with an exception; no Entry is made and the AccountDirectory and the    *)
(* HeaderFields stay as they were.                                         *)
(***************************************************************************)
C4_TransBeforeVerIsFatal ==
    [][\A line \in Lines :
          (Reads(line) /\ IsRecord(line, TRANS) /\ data.entries = <<>>) =>
              /\ pc' = "failed"
              /\ err' # "none"
              /\ data'.entries = <<>>
              /\ data'.accountNames = data.accountNames
              /\ data'.headers = data.headers]_vars

C4_Witness ==
    /\ pc = "failed"
    /\ err = "IndexError"
    /\ GoodTrans(LastLine)
    /\ data.entries = <<>>
    /\ data.accountNames # <<>>
    /\ data.headers # <<>>

(***************************************************************************)
(* C5: a TRANS line whose account is already a key of the current Entry's  *)
(* transaction map ends the parse with an exception and leaves every map   *)
(* as it was; a well-formed TRANS line whose account is not a key of the   *)
(* current Entry's map is accepted, also when another Entry has that       *)
(* account.                                                                *)
(***************************************************************************)
C5_DuplicateAccountIsFatal ==
    [][\A line \in Lines :
          (Reads(line) /\ GoodTrans(line) /\ data.entries # <<>>) =>
              LET cur == data.entries[Len(data.entries)].entries
              IN IF TransAccount(line) \in KeySet(cur)
                 THEN /\ pc' = "failed"
                      /\ err' # "none"
                      /\ data' = data
                 ELSE /\ pc' = "parse"
                      /\ err' = "none"
                      /\ Len(data'.entries) = Len(data.entries)
                      /\ ItemSet(data'.entries[Len(data.entries)].entries) =
                            ItemSet(cur) \cup
                              {<<TransAccount(line), TransAmount(line)>>}]_vars

\* the same account a second time in one Entry, with another amount
C5_Witness ==
    /\ pc = "failed"
    /\ err = "AssertionError"
    /\ Len(consumed) >= 3
    /\ GoodTrans(LastLine)
    /\ GoodTrans(consumed[Len(consumed) - 1])
    /\ TransAccount(LastLine) = TransAccount(consumed[Len(consumed) - 1])
    /\ TransAmount(LastLine) # TransAmount(consumed[Len(consumed) - 1])
    /\ ItemSet(data.entries[Len(data.entries)].entries) =
          {<<TransAccount(LastLine), TransAmount(consumed[Len(consumed) - 1])>>}

(***************************************************************************)
(* C9: a line with no tokens, a line that is the one token "{" or "}", and *)
(* a line whose first token neither begins with "#" nor is "{" or "}"      *)
(* raise nothing and leave the ledger as it was; a line whose first token  *)
(* is "{" or "}" and that has a further token ends the parse.              *)
(***************************************************************************)
IsBrace(tok) == tok = <<"{">> \/ tok = <<"}">>

C9_NoOpLines ==
    [][\A line \in Lines :
          (Reads(line) /\ Lexed[line].ok) =>
              LET split == Toks(line)
              IN /\ (split = <<>> \/ split = << <<"{">> >> \/ split = << <<"}">> >>
                       \/ (split # <<>> /\ ~IsBrace(split[1])
                             /\ (split[1] = <<>> \/ split[1][1] # "#")))
                        => (pc' = "parse" /\ err' = "none" /\ data' = data)
                 /\ (split # <<>> /\ IsBrace(split[1]) /\ Len(split) > 1)
                        => (pc' = "failed" /\ err' # "none" /\ data' = data)]_vars

\* an ignored line, a "{" and a "}" read after a VER and a TRANS, the
\* ledger still holding that one Entry
C9_Witness ==
    /\ pc = "parse"
    /\ Len(consumed) = 4
    /\ IsRecord(consumed[1], VER)
    /\ consumed[2] = IgnoredLine
    /\ consumed[3] \in {OpenLine, CloseLine, BlankLine}
    /\ GoodTrans(consumed[4])
    /\ Len(data.entries) = 1
    /\ data.accountNames = <<>>

(***************************************************************************)
(* C7: after any lines that parse without error the AccountDirectory maps  *)
(* each account number to the name of the last KONTO line for it, the      *)
(* HeaderFields map each other label to the fields of the last line with   *)
(* that label, and KONTO, VER and TRANS are never keys of HeaderFields.    *)
(***************************************************************************)
IsLabelled(line) ==
    /\ Lexed[line].ok
    /\ Toks(line) # <<>>
    /\ startswith(Toks(line)[1], "#")

Label(line) == Tail(Toks(line)[1])

KontoNumber(line) == ParseInt(Toks(line)[2]).val

C7_LastRecordWins ==
    ~ParseFailed =>
        LET n == Len(consumed)
            kontos == {i \in 1..n : IsRecord(consumed[i], KONTO)}
            others == {i \in 1..n : /\ IsLabelled(consumed[i])
                                    /\ Label(consumed[i]) \notin {KONTO, VER, TRANS}}
            lastKontos == {i \in kontos : \A j \in kontos :
                              KontoNumber(consumed[j]) = KontoNumber(consumed[i]) => j <= i}
            lastOthers == {i \in others : \A j \in others :
                              Label(consumed[j]) = Label(consumed[i]) => j <= i}
        IN /\ ItemSet(data.accountNames) =
                 {<<KontoNumber(consumed[i]), Toks(consumed[i])[3]>> : i \in lastKontos}
           /\ ItemSet(data.headers) =
                 {<<Label(consumed[i]), Tail(Toks(consumed[i]))>> : i \in lastOthers}
           /\ Len(data.accountNames) = Cardinality(KeySet(data.accountNames))
           /\ Len(data.headers) = Cardinality(KeySet(data.headers))
           /\ KeySet(data.headers) \cap {KONTO, VER, TRANS} = {}

\* account 2 named twice and FLAGGA given twice, among KONTO lines
C7_Witness ==
    /\ ~ParseFailed
    /\ consumed = <<Konto2, Flagga0, Konto2b, Flagga1>>
    /\ data.accountNames = << [k |-> 2, v |-> <<"y">>] >>
    /\ data.headers = << [k |-> Tail(HashFLAGGA), v |-> << <<"1">>, <<"x">> >>] >>

(***************************************************************************)
(* The order in which the serializers are to emit the entries: entry i     *)
(* comes before entry j when its key is smaller (the number, or in by-date *)
(* mode the raw date string and then the number), and when their keys are  *)
(* equal and i is earlier in the file.                                     *)
(***************************************************************************)
Precedes(i, j, byDate) ==
    LET a == data.entries[i]
        b == data.entries[j]
        byNumber == a.number < b.number \/ (a.number = b.number /\ i < j)
    IN IF byDate
       THEN StrLt(a.date, b.date) \/ (a.date = b.date /\ byNumber)
       ELSE byNumber

Rank(i, byDate) ==
    1 + Cardinality({j \in 1..Len(data.entries) : Precedes(j, i, byDate)})

ExpectedOrder(byDate) ==
    [r \in 1..Len(data.entries) |->
        data.entries[CHOOSE i \in 1..Len(data.entries) : Rank(i, byDate) = r]]

\* the rows of the CSV output after its two header rows
EntryRows == SubSeq(csvOut, 3, Len(csvOut))

AllAccountsKnown ==
    \A i \in 1..Len(data.entries) :
        KeySet(data.entries[i].entries) \subseteq KeySet(data.accountNames)

\* the c-th smallest account number of the AccountDirectory
NthAccount(c) ==
    CHOOSE a \in KeySet(data.accountNames) :
        Cardinality({b \in KeySet(data.accountNames) : b < a}) = c - 1

C10_CsvShape ==
    (csvOpen /\ AllAccountsKnown) =>
        LET nAcc == Cardinality(KeySet(data.accountNames))
            want == ExpectedOrder(args.sort_date)
        IN /\ err = "none"
           /\ Len(csvOut) = 2 + Len(data.entries)
           /\ \A r \in 1..Len(csvOut) : Len(csvOut[r]) = 3 + nAcc
           /\ SubSeq(csvOut[1], 1, 3) =
                 << <<"#">>, <<"d", "a", "t", "e">>, <<"t", "e", "x", "t">> >>
           /\ SubSeq(csvOut[2], 1, 3) = << <<>>, <<>>, <<>> >>
           /\ \A c \in 1..nAcc :
                 /\ csvOut[1][3 + c] = FormatInt(NthAccount(c))
                 /\ csvOut[2][3 + c] = DictGet(data.accountNames, NthAccount(c))
                 /\ \A r \in 1..Len(want) :
                       csvOut[2 + r][3 + c] =
                          IF NthAccount(c) \in KeySet(want[r].entries)
                          THEN FormatFloat(DictGet(want[r].entries, NthAccount(c)))
                          ELSE <<>>

\* one entry with an amount in the column of an account
C10_Witness ==
    /\ csvOpen
    /\ AllAccountsKnown
    /\ Len(csvOut) = 3
    /\ Len(csvOut[3]) >= 4
    /\ \E c \in 4..Len(csvOut[3]) : csvOut[3][c] # <<>>

(***************************************************************************)
(* C6: the parser accepts a TRANS line whose account is not in the         *)
(* AccountDirectory; if the account is still missing at the end of the     *)
(* file, the CSV serializer fails with the lookup error (ValueError) at    *)
(* the first Entry, in output order, that has such an account, and the     *)
(* SIE4 serializer writes every transaction and raises nothing.            *)
(***************************************************************************)
EntryUnknown(e) == ~(KeySet(e.entries) \subseteq KeySet(data.accountNames))

C6_UnknownAccount ==
    LET want == ExpectedOrder(args.sort_date)
        bad == {r \in 1..Len(want) : EntryUnknown(want[r])}
    IN /\ (ParseFailed /\ GoodTrans(LastLine)) =>
             \/ data.entries = <<>>
             \/ TransAccount(LastLine) \in
                   KeySet(data.entries[Len(data.entries)].entries)
       /\ csvOpen =>
             IF bad = {}
             THEN err = "none"
             ELSE /\ pc = "failed"
                  /\ err = "ValueError"
                  /\ \A r \in bad : Len(EntryRows) < r
                  /\ Len(EntryRows) + 1 \in bad
       /\ sieOpen =>
             /\ err = "none"
             /\ \A r \in 1..Len(want) : \A t \in 1..Len(want[r].entries) :
                   \E n \in 1..Len(SplitLines(sieOut)) :
                       SplitLines(sieOut)[n] = SieTrans(want[r].entries[t])

\* a transaction on account 2, the only KONTO line a later one for
\* account 1: the CSV serializer has failed on the entry
C6_Witness ==
    /\ consumed = <<Ver1, Trans2, Konto1>>
    /\ csvOpen
    /\ pc = "failed"
    /\ err = "ValueError"
    /\ csvOut = << << <<"#">>, <<"d", "a", "t", "e">>, <<"t", "e", "x", "t">>, <<"1">> >>,
                   << <<>>, <<>>, <<>>, <<"x", DQ, "y">> >> >>

(***************************************************************************)
(* C8: no output file is opened or written before every line of the input  *)
(* has been parsed without error, and the SIE4 serializer starts only      *)
(* after the CSV serializer, when requested, has finished.                 *)
(***************************************************************************)
C8_ParseBeforeOutput ==
    /\ (csvOpen \/ sieOpen \/ csvOut # <<>> \/ sieOut # <<>>) =>
          /\ pc \in {"si", "done", "failed"}
          /\ parseLines(EmptyData, consumed, 1).err = "none"
    /\ (sieOpen /\ args.csv) =>
          /\ csvOpen
          /\ err = "none"
          /\ Len(csvOut) = 2 + Len(data.entries)

\* both outputs requested, the third line of the input fails to parse
C8_Witness ==
    /\ args.csv
    /\ args.si
    /\ pc = "failed"
    /\ Len(consumed) = 3
    /\ parseLines(EmptyData, consumed, 1).err # "none"
    /\ data.entries # <<>>
    /\ ~csvOpen /\ ~sieOpen /\ csvOut = <<>> /\ sieOut = <<>>

(***************************************************************************)
(* C2: the SIE4 output of a parsed ledger parses again, to a ledger with   *)
(* the same AccountDirectory, the same header labels and fields and the    *)
(* same (series, number, date, text, transactions) for every Entry, also   *)
(* when a field holds a double quote, a backslash or whitespace.           *)
(***************************************************************************)
EntryTuples(es) ==
    [i \in 1..Len(es) |->
        <<es[i].series, es[i].number, es[i].date, es[i].text, ItemSet(es[i].entries)>>]

C2_RoundTrip ==
    (pc = "done" /\ sieOpen) =>
        LET again == parseFile(sieOut)
        IN /\ again.err = "none"
           /\ ItemSet(again.data.accountNames) = ItemSet(data.accountNames)
           /\ ItemSet(again.data.headers) = ItemSet(data.headers)
           /\ EntryTuples(again.data.entries) =
                 EntryTuples(ExpectedOrder(args.sort_date))
====
